---------------------------- MODULE Spec2Model ----------------------------
(***************************************************************************)
(* mjlib::micro::PersistentConfig (src/mjlib/micro/persistent_config.cc):  *)
(* the registry of configuration groups, the "conf" command handler with   *)
(* its asynchronous continuations, and the flash record codec used by      *)
(* load and write.                                                         *)
(*                                                                         *)
(* The synchronous part of every handler is one action.  The handler code  *)
(* is written as operators over a record S holding the state the code can  *)
(* touch, so that a call chain such as Command -> Get -> WriteMessage is   *)
(* the composition of the operators of the same names.                    *)
(***************************************************************************)
EXTENDS Integers, Sequences, FiniteSets, TLC

\* ------------------------------------------------------------------ bounds
\* Number of groups the application registers in Spec and SpecLoad.
MaxGroups == 2
\* Handler field values are 0..MaxValue.
MaxValue == 1
\* Records of an initial flash image in SpecLoad.
MaxRecs == 2
\* Operations called on the two ends of a pipe in SpecPipe.
MaxOps == 4
\* Buffers handed to a pipe hold 0..MaxBuf bytes.
MaxBuf == 2
\* Keys asked of a StreamPipeFactory, and calls of GetStream, in SpecFactory.
MaxKeys == 2
MaxCalls == 3
\* The clock, the periods and the calls of start in SpecTimer.
MaxTime == 4
MaxPeriod == 2
MaxStarts == 2

\* ------------------------------------------------------- program constants
kMaxSize == 16
\* telemetry::Format::kMaxStringSize
kMaxStringSize == 32768
\* longest varuint the telemetry stream decodes, in bytes
kMaxVaruintSize == 10
\* content of an erased flash byte
ErasedByte == 255
\* SetDefault's value of the handler's field
DefaultValue == 0

GroupNames == 1..MaxGroups
\* A name no group is ever registered under.
Bogus == MaxGroups + 1
Values == 0..MaxValue
\* error_code values a completion can report; 0 is success
Errors == {1, 2}

Min(a, b) == IF a < b THEN a ELSE b

\* A group's name as the bytes of a string_view: group 1 is "a", 2 is "bb", ...
NameBytes(n) == [i \in 1..n |-> 96 + n]

\* ----------------------------------------------------------- record layout
\* 32-bit quantities at or above 2^30 are all represented by 2^30: the code
\* only compares a stored CRC for equality with a live one and skips dataLen
\* bytes of a region far smaller than that.
U32Sat == 2^30

\* telemetry::WriteStream::Write(uint32_t): four bytes, little endian
WriteU32(n) ==
  << n % 256, (n \div 256) % 256, (n \div 65536) % 256, (n \div 16777216) % 256 >>

\* telemetry::ReadStream::Read<uint32_t> at offset pos of buf
ReadU32(buf, pos) ==
  IF buf[pos + 4] >= 64 THEN U32Sat
  ELSE buf[pos + 1] + 256 * buf[pos + 2] + 65536 * buf[pos + 3]
       + 16777216 * buf[pos + 4]

\* telemetry::WriteStream::WriteVaruint: 7 bits a byte, low group first
RECURSIVE WriteVaruint(_)
WriteVaruint(n) ==
  IF n < 128 THEN << n >>
  ELSE << 128 + (n % 128) >> \o WriteVaruint(n \div 128)

\* telemetry::ReadStream::ReadVaruint; fails at the end of the stream or
\* when the number runs over kMaxVaruintSize bytes.
RECURSIVE ReadVaruintFrom(_, _, _, _, _)
ReadVaruintFrom(buf, pos, i, shift, acc) ==
  IF i >= kMaxVaruintSize \/ pos >= Len(buf)
  THEN [ok |-> FALSE, val |-> 0, pos |-> pos]
  ELSE LET b == buf[pos + 1]
           v == Min(U32Sat, acc + (b % 128) * shift)
       IN  IF b < 128
           THEN [ok |-> TRUE, val |-> v, pos |-> pos + 1]
           ELSE ReadVaruintFrom(buf, pos + 1, i + 1, Min(shift * 128, 2^23), v)

ReadVaruint(buf, pos) == ReadVaruintFrom(buf, pos, 0, 1, 0)

\* telemetry::WriteStream::WriteString: a varuint length, then the bytes
WriteString(bytes) == WriteVaruint(Len(bytes)) \o bytes

\* base::BufferReadStream::ignore: the offset moves by n, or to the end of
\* the buffer when fewer than n bytes remain.
Ignore(buf, pos, n) == Min(pos + n, Len(buf))

\* base::BufferReadStream::remaining
Remaining(buf, pos) == Len(buf) - pos

\* base::CalculateCrc: a checksum of the bytes (a stand-in for CRC-32 that
\* separates the schemas of the model)
RECURSIVE CalculateCrc(_)
CalculateCrc(bytes) ==
  IF bytes = << >> THEN 7
  ELSE (CalculateCrc(SubSeq(bytes, 1, Len(bytes) - 1)) * 33
        + bytes[Len(bytes)] + 1) % (2^20)

\* ------------------------------------------------------ the group handlers
\* SerializableHandlerBase of group g: one field "x" holding a value.
\* WriteSchema: the bytes describing the structure, here at version v.
WriteSchema(g, v) == << g, v >>
LiveVersion == 1
StaleVersion == 0

\* WriteBinary: the field as one byte
WriteBinary(v) == << v >>

\* ReadBinary from offset pos: [val, pos, err]; a byte that is no value of
\* the field is consumed and refused.
ReadBinary(buf, pos, old) ==
  IF Remaining(buf, pos) < 1 THEN [val |-> old, pos |-> pos, err |-> 1]
  ELSE IF buf[pos + 1] \in Values
       THEN [val |-> buf[pos + 1], pos |-> pos + 1, err |-> 0]
       ELSE [val |-> old, pos |-> pos + 1, err |-> 1]

\* Read / Set: nonzero for a key that is no field of the group
HandlerKnowsKey(key) == key = "x"

\* ------------------------------------------------------------ the registry
\* PoolMap::find: the index of the element named by the bytes, 0 for end()
PoolFind(elems, bytes) ==
  IF \E i \in 1..Len(elems) : NameBytes(elems[i]) = bytes
  THEN CHOOSE i \in 1..Len(elems) : NameBytes(elems[i]) = bytes
  ELSE 0

\* PoolMap::insert: {iterator, inserted}; full is the fatal capacity check
PoolInsert(elems, name) ==
  IF PoolFind(elems, NameBytes(name)) # 0
  THEN [elems |-> elems, second |-> FALSE, full |-> FALSE]
  ELSE IF Len(elems) >= kMaxSize
       THEN [elems |-> elems, second |-> FALSE, full |-> TRUE]
       ELSE [elems |-> Append(elems, name), second |-> TRUE, full |-> FALSE]


\* ------------------------------------------------------------------- state
VARIABLES
  elements_,                 \* the registry, in registration order
  aborted,                   \* MJ_ASSERT has fired
  started,                   \* a command has run: registration is over
  value,                     \* each group's in-memory state
  flash,                     \* the bytes of the flash region
  locked,                    \* the flash refuses programming
  current_response_,         \* Impl::current_response_ (0: none yet)
  current_enumerate_index_,  \* Impl::current_enumerate_index_
  handlers,                  \* handler operations that have not completed
  writes,                    \* AsyncWrite operations that have not completed
  cmd,                       \* the command in flight, with its response
  trace,                     \* what the command in flight has done so far
  scan,                      \* the records its DoLoad has decoded
  rt,                        \* progress through write, default, load
  snap,                      \* the values when that write began
  lastVerb                   \* the command before: "load", "default" or ""

\* HalfPipe (src/unnamed/part_001), the two halves of a BidirectionalPipe
VARIABLES
  read_handler_,             \* per half: the pending read's handler, 0 for none
  read_buffers_,             \* per half: the size of the pending read's buffer
  write_handler_,            \* per half: the pending write's handler, 0 for none
  write_buffers_,            \* per half: the size of the pending write's data
  posted,                    \* what was posted to the io_service, in order
  asserted,                  \* a BOOST_ASSERT has failed
  pipeOp                     \* the last call on a half, numbered

pipeVars == << read_handler_, read_buffers_, write_handler_, write_buffers_,
               posted, asserted, pipeOp >>

\* StreamPipeFactory (src/unnamed/part_001)
VARIABLES
  pipes_,                    \* Impl::pipes_: key -> pipe, 0 a null shared_ptr
  allocated,                 \* BidirectionalPipes constructed so far
  streams,                   \* the HalfPipeRefs GetStream has returned
  crashed                    \* a dereference of a null shared_ptr trapped

factoryVars == << pipes_, allocated, streams, crashed >>

\* RepeatingTimer (src/mjlib/io/repeating_timer.cc)
VARIABLES
  period_,                   \* RepeatingTimer::period_
  callback_,                 \* RepeatingTimer::callback_, 0 when empty
  timer_,                    \* the deadline timer: its expiry, a wait pending
  completions,               \* completions of waits the io_service will run
  now,                       \* io::Now
  starts,                    \* calls of start so far
  timerStep                  \* the last step of the timer and what it did

timerVars == << period_, callback_, timer_, completions, now, starts,
                timerStep >>

configVars == << elements_, aborted, started, value, flash, locked,
                 current_response_, current_enumerate_index_, handlers,
                 writes, cmd, trace, scan, rt, snap, lastVerb >>

vars == << elements_, aborted, started, value, flash, locked,
           current_response_, current_enumerate_index_, handlers, writes,
           cmd, trace, scan, rt, snap, lastVerb, pipeVars, factoryVars,
           timerVars >>

NoCmd == [verb |-> "", group |-> 0, key |-> "", val |-> 0, resp |-> 0]

\* One event of the trace: what happened, the group (or response, or
\* offset) it concerns, a text and a number.
Ev(tag, g, s, n) == [ev |-> tag, g |-> g, s |-> s, n |-> n]

\* The state the handler code reads and writes, as one record.
Cur ==
  [ elems |-> elements_, value |-> value, flash |-> flash, locked |-> locked,
    cur |-> current_response_, idx |-> current_enumerate_index_,
    handlers |-> handlers, writes |-> writes, trace |-> trace, scan |-> scan ]

Install(S) ==
  /\ value' = S.value
  /\ flash' = S.flash
  /\ locked' = S.locked
  /\ current_response_' = S.cur
  /\ current_enumerate_index_' = S.idx
  /\ handlers' = S.handlers
  /\ writes' = S.writes
  /\ trace' = S.trace
  /\ scan' = S.scan

Emit(S, e) == [S EXCEPT !.trace = Append(@, e)]

RemoveAt(seq, i) == SubSeq(seq, 1, i - 1) \o SubSeq(seq, i + 1, Len(seq))

\* ----------------------------------------------------------------- replies
\* response.callback(error)
Callback(S, resp, error) == Emit(S, Ev("callback", resp, "", error))

\* micro::AsyncWrite(stream, message, callback): starts the write of the
\* message; the callback runs when the write has completed.
AsyncWrite(S, message, resp) ==
  [ Emit(S, Ev("reply", resp, message, 0))
    EXCEPT !.writes = Append(@, [msg |-> message, resp |-> resp]) ]

\* WriteMessage calling the callback itself once the write is started
WriteMessage_CallbackNow(S, message, resp) ==
  Callback(AsyncWrite(S, message, resp), resp, 0)

\* WriteMessage: the response's callback is handed to AsyncWrite
WriteMessage(S, message, resp) == AsyncWrite(S, message, resp)

WriteOK(S, resp) == WriteMessage(S, "OK\r\n", resp)

UnknownCommand(S, resp) == WriteMessage(S, "ERR unknown subcommand\r\n", resp)

\* --------------------------------------------------------------- enumerate
\* SerializableHandlerBase::Enumerate: the handler streams its lines and
\* calls the callback once when it is done.
HandlerEnumerate(S, g) ==
  [ Emit(S, Ev("Enumerate", g, "", 0))
    EXCEPT !.handlers = Append(@, [kind |-> "enumerate", g |-> g]) ]

\* EnumerateCallback without the return after reporting the error
EnumerateCallback_NoReturn(S, error) ==
  LET S1 == IF error # 0 THEN Callback(S, S.cur, error) ELSE S
  IN  IF S1.idx = Len(S1.elems)
      THEN WriteOK(S1, S1.cur)
      ELSE HandlerEnumerate([S1 EXCEPT !.idx = @ + 1], S1.elems[S1.idx + 1])

EnumerateCallback(S, error) ==
  IF error # 0
  THEN Callback(S, S.cur, error)
  ELSE IF S.idx = Len(S.elems)
       THEN WriteOK(S, S.cur)
       ELSE HandlerEnumerate([S EXCEPT !.idx = @ + 1], S.elems[S.idx + 1])

\* Enumerate without the reset of current_enumerate_index_
Enumerate_NoReset(S, resp) == EnumerateCallback([S EXCEPT !.cur = resp], 0)

Enumerate(S, resp) == EnumerateCallback([S EXCEPT !.cur = resp, !.idx = 0], 0)

\* --------------------------------------------------------------------- get
\* SerializableHandlerBase::Read: nonzero at once for an unknown key;
\* otherwise the handler writes the value and calls the callback once.
HandlerRead(S, g, key) ==
  IF HandlerKnowsKey(key)
  THEN [ Emit(S, Ev("Read", g, key, S.value[g]))
         EXCEPT !.handlers = Append(@, [kind |-> "read", g |-> g]) ]
  ELSE Emit(S, Ev("Read", g, key, -1))

HandlerReadResult(key) == IF HandlerKnowsKey(key) THEN 0 ELSE 1

\* the lambda replying OK after the value
GetCallback_WritesOK(S, error) ==
  IF error # 0
  THEN Callback(S, S.cur, error)
  ELSE WriteOK(S, S.cur)

\* the lambda without the return after reporting the error
GetCallback_NoReturn(S, error) ==
  LET S1 == IF error # 0 THEN Callback(S, S.cur, error) ELSE S
  IN  WriteMessage(S1, "\r\n", S1.cur)

\* the lambda Get hands to Read
GetCallback(S, error) ==
  IF error # 0
  THEN Callback(S, S.cur, error)
  ELSE WriteMessage(S, "\r\n", S.cur)

Get(S, c, resp) ==
  LET i == PoolFind(S.elems, NameBytes(c.group))
  IN  IF i = 0
      THEN WriteMessage(S, "ERR unknown group\r\n", resp)
      ELSE LET S1 == HandlerRead([S EXCEPT !.cur = resp], S.elems[i], c.key)
           IN  IF HandlerReadResult(c.key) # 0
               THEN WriteMessage(S1, "ERR error reading\r\n", resp)
               ELSE S1

\* --------------------------------------------------------------------- set
\* SerializableHandlerBase::Set: zero when the key is a field; it then
\* holds the value.
HandlerSet(S, g, key, val) ==
  IF HandlerKnowsKey(key)
  THEN [ Emit(S, Ev("Set", g, key, val)) EXCEPT !.value[g] = val ]
  ELSE Emit(S, Ev("Set", g, key, -1))

HandlerSetResult(key) == IF HandlerKnowsKey(key) THEN 0 ELSE 1

\* element.updated()
Updated(S, g) == Emit(S, Ev("updated", g, "", 0))

\* Set replying OK before it notifies
Set_OkBeforeUpdate(S, c, resp) ==
  LET i == PoolFind(S.elems, NameBytes(c.group))
  IN  IF i = 0
      THEN WriteMessage(S, "ERR unknown group\r\n", resp)
      ELSE LET g == S.elems[i]
               S1 == HandlerSet(S, g, c.key, c.val)
           IN  IF HandlerSetResult(c.key) = 0
               THEN Updated(WriteOK(S1, resp), g)
               ELSE WriteMessage(S1, "ERR error setting\r\n", resp)

Set(S, c, resp) ==
  LET i == PoolFind(S.elems, NameBytes(c.group))
  IN  IF i = 0
      THEN WriteMessage(S, "ERR unknown group\r\n", resp)
      ELSE LET g == S.elems[i]
               S1 == HandlerSet(S, g, c.key, c.val)
           IN  IF HandlerSetResult(c.key) = 0
               THEN WriteOK(Updated(S1, g), resp)
               ELSE WriteMessage(S1, "ERR error setting\r\n", resp)


\* -------------------------------------------------------------------- load
\* CalculateSchemaCrc: WriteSchema into the scratch buffer, CRC of the bytes
CalculateSchemaCrc(g) == CalculateCrc(WriteSchema(g, LiveVersion))

\* One decoded record, or the stop that ended the scan.
Entry(start, g, name, crc, len, data, out, end, vb, va) ==
  [ start |-> start, g |-> g, name |-> name, crc |-> crc, len |-> len,
    data |-> data, out |-> out, end |-> end, vb |-> vb, va |-> va ]

\* continue without the ignore
OnUnknownGroup_NoSkip(buf, pos, data_size) == [pos |-> pos, go |-> TRUE]

\* The record names no registered group: ignore(data_size); continue
OnUnknownGroup(buf, pos, data_size) ==
  [pos |-> Ignore(buf, pos, data_size), go |-> TRUE]

\* a break where the code continues
OnCrcMismatch_Break(buf, pos, data_size) ==
  [pos |-> Ignore(buf, pos, data_size), go |-> FALSE]

\* the skip as arithmetic on the offset, past the stream
OnCrcMismatch_Unclamped(buf, pos, data_size) ==
  [pos |-> pos + data_size, go |-> TRUE]

\* The stored CRC is not the live one: ignore(data_size); continue
OnCrcMismatch(buf, pos, data_size) ==
  [pos |-> Ignore(buf, pos, data_size), go |-> TRUE]

\* the test without its name_size == 0
NameSizeStops_NoZero(name_size) == name_size >= kMaxStringSize

\* name_size == 0 || name_size >= kMaxStringSize: break
NameSizeStops(name_size) == name_size = 0 \/ name_size >= kMaxStringSize

\* The while (true) loop of DoLoad, from stream offset pos.
RECURSIVE ScanLoop(_, _)
ScanLoop(S, pos) ==
  LET buf == S.flash
      Stop(why, at) ==
        [S EXCEPT !.scan = Append(@, Entry(pos, 0, << >>, 0, 0, at, why, at,
                                           S.value, S.value))]
      Skip(g, name, crc, len, data, out, r) ==
        LET S1 == [S EXCEPT !.scan = Append(@, Entry(pos, g, name, crc, len,
                                     data, out, r.pos, S.value, S.value))]
        IN  IF r.go THEN ScanLoop(S1, r.pos) ELSE S1
      ns == ReadVaruint(buf, pos)
  IN  IF ~ns.ok THEN Stop("varuint", ns.pos)
      ELSE IF NameSizeStops(ns.val)
      THEN Stop(IF ns.val = 0 THEN "end" ELSE "name size", ns.pos)
      ELSE
        LET name == SubSeq(buf, ns.pos + 1, Min(ns.pos + ns.val, Len(buf)))
            p2 == Ignore(buf, ns.pos, ns.val)
        IN  IF Remaining(buf, p2) < 8 THEN Stop("short", p2)
            ELSE
              LET expected_crc == ReadU32(buf, p2)
                  data_size == ReadU32(buf, p2 + 4)
                  p3 == p2 + 8
                  i == PoolFind(S.elems, name)
              IN  IF i = 0
                  THEN Skip(0, name, expected_crc, data_size, p3, "unknown",
                            OnUnknownGroup(buf, p3, data_size))
                  ELSE
                    LET g == S.elems[i]
                    IN  IF CalculateSchemaCrc(g) # expected_crc
                        THEN Skip(g, name, expected_crc, data_size, p3,
                                  "mismatch",
                                  OnCrcMismatch(buf, p3, data_size))
                        ELSE
                          LET rb == ReadBinary(buf, p3, S.value[g])
                              va == [S.value EXCEPT ![g] = rb.val]
                              S1 == [ Emit(S, Ev("ReadBinary", g, "", rb.err))
                                      EXCEPT !.value = va,
                                             !.scan = Append(@,
                                               Entry(pos, g, name,
                                                 expected_crc, data_size, p3,
                                                 "applied", rb.pos,
                                                 S.value, va)) ]
                          IN  ScanLoop(S1, rb.pos)

\* The loop after the scan: element.second.updated() for every element
RECURSIVE NotifyFrom(_, _)
NotifyFrom(S, i) ==
  IF i > Len(S.elems) THEN S
  ELSE NotifyFrom(Updated(S, S.elems[i]), i + 1)

\* notifying only the groups whose record was applied
RECURSIVE NotifyAppliedFrom(_, _)
NotifyAppliedFrom(S, i) ==
  IF i > Len(S.elems) THEN S
  ELSE IF \E k \in DOMAIN S.scan :
            S.scan[k].out = "applied" /\ S.scan[k].g = S.elems[i]
       THEN NotifyAppliedFrom(Updated(S, S.elems[i]), i + 1)
       ELSE NotifyAppliedFrom(S, i + 1)

NotifyAll_OnlyApplied(S) == NotifyAppliedFrom(S, 1)

NotifyAll(S) == NotifyFrom(S, 1)

\* DoLoad notifying only when the scan changed a value
DoLoad_NotifyOnChange(S) ==
  LET S1 == Emit(ScanLoop(Emit(S, Ev("GetInfo", 0, "", 0)), 0),
                 Ev("scanned", 0, "", 0))
  IN  IF S1.value = S.value THEN S1 ELSE NotifyAll(S1)

DoLoad(S) ==
  NotifyAll(Emit(ScanLoop(Emit(S, Ev("GetInfo", 0, "", 0)), 0),
                 Ev("scanned", 0, "", 0)))

Load(S, resp) == WriteOK(DoLoad(S), resp)

\* ------------------------------------------------------------------- write
FlashUnlock(S) == [Emit(S, Ev("Unlock", 0, "", 0)) EXCEPT !.locked = FALSE]

FlashLock(S) == [Emit(S, Ev("Lock", 0, "", 0)) EXCEPT !.locked = TRUE]

\* FlashInterface::Erase: every byte of the region reads erased
FlashErase(S) ==
  [ Emit(S, Ev("Erase", 0, "", 0))
    EXCEPT !.flash = IF S.locked THEN @
                     ELSE [k \in 1..Len(@) |-> ErasedByte] ]

\* FlashWriteStream::write: programs the bytes from offset pos on; a locked
\* flash keeps its content.
Program(S, pos, what, bytes) ==
  [ Emit(S, Ev("program", pos, what, Len(bytes)))
    EXCEPT !.flash =
      IF S.locked THEN @
      ELSE [k \in 1..Len(@) |->
              IF k > pos /\ k <= pos + Len(bytes) THEN bytes[k - pos]
              ELSE @[k]] ]

\* a write that keeps no count
SizeCountingStream_NoCount(size_, data) == size_

\* SizeCountingStream::write
SizeCountingStream(size_, data) == size_ + Len(data)

\* The body of Write's loop for element i, the stream at offset pos;
\* gives the state and the stream's offset after the record.
WriteElement(S, i, pos) ==
  LET g == S.elems[i]
      name == WriteString(NameBytes(g))
      crc == WriteU32(CalculateSchemaCrc(g))
      S1 == Program(S, pos, "name", name)
      S2 == Program(S1, pos + Len(name), "crc", crc)
      S3 == Emit(S2, Ev("WriteBinary", g, "count", 0))
      data_size == SizeCountingStream(0, WriteBinary(S.value[g]))
      p3 == pos + Len(name) + Len(crc)
      S4 == Program(S3, p3, "len", WriteU32(data_size))
      S5 == Emit(S4, Ev("WriteBinary", g, "flash", 0))
      data == WriteBinary(S.value[g])
      S6 == Program(S5, p3 + 4, "data", data)
  IN  [S |-> S6, pos |-> p3 + 4 + Len(data)]

RECURSIVE WriteElements(_, _, _)
WriteElements(S, i, pos) ==
  IF i > Len(S.elems) THEN [S |-> S, pos |-> pos]
  ELSE LET r == WriteElement(S, i, pos)
       IN  WriteElements(r.S, i + 1, r.pos)

\* Write without the Unlock before the Erase
Write_NoUnlock(S, resp) ==
  LET S1 == FlashErase(Emit(S, Ev("GetInfo", 0, "", 0)))
      r == WriteElements(S1, 1, 0)
      S2 == Program(r.S, r.pos, "end", WriteU32(0))
  IN  WriteOK(FlashLock(S2), resp)

\* Write replying before it locks the flash
Write_LockAfterReply(S, resp) ==
  LET S1 == FlashErase(FlashUnlock(Emit(S, Ev("GetInfo", 0, "", 0))))
      r == WriteElements(S1, 1, 0)
      S2 == Program(r.S, r.pos, "end", WriteU32(0))
  IN  FlashLock(WriteOK(S2, resp))

Write(S, resp) ==
  LET S1 == FlashErase(FlashUnlock(Emit(S, Ev("GetInfo", 0, "", 0))))
      r == WriteElements(S1, 1, 0)
      S2 == Program(r.S, r.pos, "end", WriteU32(0))
  IN  WriteOK(FlashLock(S2), resp)

\* ----------------------------------------------------------------- default
\* SerializableHandlerBase::SetDefault
SetDefault(S, g) ==
  [Emit(S, Ev("SetDefault", g, "", 0)) EXCEPT !.value[g] = DefaultValue]

RECURSIVE DefaultFrom(_, _)
DefaultFrom(S, i) ==
  IF i > Len(S.elems) THEN S
  ELSE DefaultFrom(SetDefault(S, S.elems[i]), i + 1)

\* Default telling the groups that they have changed
Default_Notifies(S, resp) == WriteOK(NotifyAll(DefaultFrom(S, 1)), resp)

Default(S, resp) == WriteOK(DefaultFrom(S, 1), resp)

\* ---------------------------------------------------------------- dispatch
\* the dispatch with Default as its last branch
Command_DefaultLast(S, c, resp) ==
  CASE c.verb = "enumerate" -> Enumerate(S, resp)
    [] c.verb = "get"       -> Get(S, c, resp)
    [] c.verb = "set"       -> Set(S, c, resp)
    [] c.verb = "load"      -> Load(S, resp)
    [] c.verb = "write"     -> Write(S, resp)
    [] OTHER                -> Default(S, resp)

Command(S, c, resp) ==
  CASE c.verb = "enumerate" -> Enumerate(S, resp)
    [] c.verb = "get"       -> Get(S, c, resp)
    [] c.verb = "set"       -> Set(S, c, resp)
    [] c.verb = "load"      -> Load(S, resp)
    [] c.verb = "write"     -> Write(S, resp)
    [] c.verb = "default"   -> Default(S, resp)
    [] OTHER                -> UnknownCommand(S, resp)


\* ------------------------------------------------------------ registration
\* RegisterDetail without the MJ_ASSERT
RegisterDetail_NoAssert(elems, name) ==
  LET result == PoolInsert(elems, name)
  IN  [elems |-> result.elems, aborted |-> result.full]

\* PersistentConfig::RegisterDetail: insert, then MJ_ASSERT(result.second)

RegisterDetail(elems, name) ==
  LET result == PoolInsert(elems, name)
  IN  [elems |-> result.elems, aborted |-> result.full \/ ~result.second]

\* ------------------------------------------------------------ the flash region
\* The bytes one record of group g takes in the image Write produces.
RecordLen(g) == Len(WriteString(NameBytes(g))) + 8 + Len(WriteBinary(DefaultValue))

RECURSIVE ImageLen(_)
ImageLen(n) == IF n = 0 THEN 4 ELSE RecordLen(n) + ImageLen(n - 1)

\* info.end - info.start: the region holds the image of MaxGroups groups
FlashSize == ImageLen(MaxGroups)

ErasedFlash == [k \in 1..FlashSize |-> ErasedByte]

\* The images a region can hold when the program starts: the records an
\* earlier build wrote (for groups it knew, under the schema it had, with
\* the length it declared), then what follows them, cut at the region's end.
RecSet ==
  { r \in [name : 1..Bogus, ver : {LiveVersion, StaleVersion},
           len : 0..2, data : Values] :
      /\ r.len = 0 => r.data = 0
      /\ r.len = 2 => r.data = MaxValue }

EncodeRecord(r) ==
  WriteString(NameBytes(r.name))
    \o WriteU32(CalculateCrc(WriteSchema(r.name, r.ver)))
    \o WriteU32(r.len) \o [k \in 1..r.len |-> r.data]

RECURSIVE EncodeRecords(_)
EncodeRecords(recs) ==
  IF recs = << >> THEN << >>
  ELSE EncodeRecord(Head(recs)) \o EncodeRecords(Tail(recs))

\* the terminator, erased bytes, an oversized name length, a lone name
Tails == { << 0, 0, 0, 0 >>, << >>, << 128, 128, 2 >>, << 1, 97 >> }

Fit(bytes) ==
  [k \in 1..FlashSize |-> IF k <= Len(bytes) THEN bytes[k] ELSE ErasedByte]

Images(n) ==
  { Fit(EncodeRecords(recs) \o t) :
      recs \in UNION { [1..k -> RecSet] : k \in 0..n }, t \in Tails }

\* ---------------------------------------------------------------- commands
Verbs == {"enumerate", "load", "write", "default", "frobnicate"}

Cmds ==
  { [NoCmd EXCEPT !.verb = v] : v \in Verbs }
    \cup { [NoCmd EXCEPT !.verb = "get", !.group = g, !.key = k] :
             g \in 1..Bogus, k \in {"x", "y"} }
    \cup { [NoCmd EXCEPT !.verb = "set", !.group = g, !.key = "x", !.val = v] :
             g \in 1..Bogus, v \in Values }
    \cup { [NoCmd EXCEPT !.verb = "set", !.group = g, !.key = "y"] :
             g \in 1..Bogus }

Idle == cmd.verb = ""

Completed == \E k \in DOMAIN trace : trace[k].ev = "callback"

\* The dispatcher hands each command a response of its own.  Responses
\* are named from the command in flight: 1 is its response, 2 the response
\* of an earlier command, 0 the empty response Impl is constructed with.
Aged(resp) == IF resp = 0 THEN 0 ELSE 2

\* ----------------------------------------------------------------- actions
Register(n) ==
  /\ ~aborted /\ ~started
  /\ LET r == RegisterDetail(elements_, n)
     IN  /\ elements_' = r.elems
         /\ aborted' = r.aborted
  /\ trace' = << Ev("Register", n, "", Len(elements_)) >>
  /\ UNCHANGED << started, value, flash, locked, current_response_,
                  current_enumerate_index_, handlers, writes, cmd, scan,
                  rt, snap, lastVerb, pipeVars, factoryVars, timerVars >>

\* The application registers its groups, in any order.
RegisterGroup ==
  \E n \in GroupNames : Len(elements_) < MaxGroups /\ Register(n)

\* Registration up to the registry's capacity; the names are taken in
\* order, a new one or any one already registered.
RegisterNext ==
  \E n \in 1..(Len(elements_) + 1) : Register(n)

\* CommandManager calls Impl::Command with the line and a response.
DoCommand(c) ==
  /\ ~aborted /\ Idle
  /\ started' = TRUE
  /\ cmd' = [c EXCEPT !.resp = 1]
  /\ Install(Command([Cur EXCEPT !.trace = << >>, !.scan = << >>], c, 1))
  /\ rt' = CASE c.verb = "write" -> 1
             [] c.verb = "default" /\ rt = 1 -> 2
             [] c.verb = "load" /\ rt = 2 -> 3
             [] OTHER -> 0
  /\ snap' = IF c.verb = "write" THEN value
             ELSE IF rt' = 0 THEN [g \in GroupNames |-> DefaultValue]
             ELSE snap
  /\ UNCHANGED << elements_, aborted, lastVerb, pipeVars, factoryVars,
                  timerVars >>

AnyCommand == \E c \in Cmds : DoCommand(c)

LoadCommand == DoCommand([NoCmd EXCEPT !.verb = "load"])

\* A handler's Enumerate or Read completes and calls its callback.
HandlerComplete ==
  \E i \in DOMAIN handlers, e \in {0} \cup Errors :
    /\ ~aborted
    /\ LET S == Emit([Cur EXCEPT !.handlers = RemoveAt(@, i)],
                     Ev("completed", handlers[i].g, handlers[i].kind, e))
       IN  Install(IF handlers[i].kind = "enumerate"
                   THEN EnumerateCallback(S, e)
                   ELSE GetCallback(S, e))
    /\ UNCHANGED << elements_, aborted, started, cmd, rt, snap, lastVerb,
                    pipeVars, factoryVars, timerVars >>

\* The write of a reply completes; AsyncWrite calls the callback it holds.
AsyncWriteComplete ==
  \E i \in DOMAIN writes :
    /\ ~aborted
    /\ LET S == Emit([Cur EXCEPT !.writes = RemoveAt(@, i)],
                     Ev("written", writes[i].resp, writes[i].msg, 0))
       IN  Install(Callback(S, writes[i].resp, 0))
    /\ UNCHANGED << elements_, aborted, started, cmd, rt, snap, lastVerb,
                    pipeVars, factoryVars, timerVars >>

\* The command's completion callback has run: the dispatcher takes the
\* next line.
Retire ==
  /\ ~Idle /\ Completed
  /\ cmd' = NoCmd
  /\ trace' = << >>
  /\ scan' = << >>
  /\ current_response_' = Aged(current_response_)
  /\ writes' = [k \in DOMAIN writes |-> [writes[k] EXCEPT !.resp = Aged(@)]]
  /\ lastVerb' = IF cmd.verb \in {"load", "default"} THEN cmd.verb ELSE ""
  /\ UNCHANGED << elements_, aborted, started, value, flash, locked,
                  current_enumerate_index_, handlers, rt, snap, pipeVars,
                  factoryVars, timerVars >>

\* ---------------------------------------------------------------- HalfPipe
\* BidirectionalPipe: direction_a_ and direction_b_, each the other's other_
Halves == {"a", "b"}

Other(h) == IF h = "a" THEN "b" ELSE "a"

\* The halves as the code reads and writes them, as one record.
CurPipe ==
  [ rh |-> read_handler_, rb |-> read_buffers_,
    wh |-> write_handler_, wb |-> write_buffers_,
    posted |-> posted, asserted |-> asserted ]

InstallPipe(P) ==
  /\ read_handler_' = P.rh
  /\ read_buffers_' = P.rb
  /\ write_handler_' = P.wh
  /\ write_buffers_' = P.wb
  /\ posted' = P.posted
  /\ asserted' = P.asserted

\* service_.post(std::bind(handler, error, n))
Post(P, handler, error, n) ==
  [P EXCEPT !.posted = Append(@, [h |-> handler, err |-> error, n |-> n])]

\* boost::asio::buffer_copy: as many bytes as both buffers have
BufferCopy(to, from) == Min(to, from)

\* boost::asio::error::operation_aborted
OperationAborted == 125

\* async_read_some leaving the other half's write pending
AsyncReadSome_NoClear(P, h, size, handler) ==
  IF P.rh[h] # 0 THEN [P EXCEPT !.asserted = TRUE]
  ELSE IF size = 0 THEN Post(P, handler, 0, 0)
  ELSE IF P.wh[Other(h)] # 0
  THEN LET written == BufferCopy(size, P.wb[Other(h)])
       IN  Post(Post(P, P.wh[Other(h)], 0, written), handler, 0, written)
  ELSE [P EXCEPT !.rb[h] = size, !.rh[h] = handler]

\* HalfPipe::async_read_some on half h
AsyncReadSome(P, h, size, handler) ==
  IF P.rh[h] # 0 THEN [P EXCEPT !.asserted = TRUE]
  ELSE IF size = 0 THEN Post(P, handler, 0, 0)
  ELSE IF P.wh[Other(h)] # 0
  THEN LET written == BufferCopy(size, P.wb[Other(h)])
           P1 == Post(Post(P, P.wh[Other(h)], 0, written), handler, 0, written)
       IN  [P1 EXCEPT !.wh[Other(h)] = 0, !.wb[Other(h)] = 0]
  ELSE [P EXCEPT !.rb[h] = size, !.rh[h] = handler]

\* HalfPipe::async_write_some on half h
AsyncWriteSome(P, h, size, handler) ==
  IF P.wh[h] # 0 THEN [P EXCEPT !.asserted = TRUE]
  ELSE IF size = 0 THEN Post(P, handler, 0, 0)
  ELSE IF P.rh[Other(h)] # 0
  THEN LET written == BufferCopy(P.rb[Other(h)], size)
           P1 == Post(Post(P, P.rh[Other(h)], 0, written), handler, 0, written)
       IN  [P1 EXCEPT !.rh[Other(h)] = 0, !.rb[Other(h)] = 0]
  ELSE [P EXCEPT !.wb[h] = size, !.wh[h] = handler]

\* HalfPipe::cancel on half h
PipeCancel(P, h) ==
  LET P1 == IF P.rh[h] # 0
            THEN [ Post(P, P.rh[h], OperationAborted, 0)
                   EXCEPT !.rh[h] = 0, !.rb[h] = 0 ]
            ELSE P
  IN  IF P1.wh[h] # 0
      THEN [ Post(P1, P1.wh[h], OperationAborted, 0)
             EXCEPT !.wh[h] = 0, !.wb[h] = 0 ]
      ELSE P1

NoOp == [op |-> "", half |-> "", size |-> 0, handler |-> 0, seq |-> 0]

\* A caller starts a read on a half, with a handler of its own.
ReadSome ==
  \E h \in Halves, size \in 0..MaxBuf :
    /\ ~asserted /\ pipeOp.seq < MaxOps
    /\ pipeOp' = [op |-> "read", half |-> h, size |-> size,
                  handler |-> pipeOp.seq + 1, seq |-> pipeOp.seq + 1]
    /\ InstallPipe(AsyncReadSome(CurPipe, h, size, pipeOp.seq + 1))
    /\ UNCHANGED << configVars, factoryVars, timerVars >>

\* A caller starts a write on a half, with a handler of its own.
WriteSome ==
  \E h \in Halves, size \in 0..MaxBuf :
    /\ ~asserted /\ pipeOp.seq < MaxOps
    /\ pipeOp' = [op |-> "write", half |-> h, size |-> size,
                  handler |-> pipeOp.seq + 1, seq |-> pipeOp.seq + 1]
    /\ InstallPipe(AsyncWriteSome(CurPipe, h, size, pipeOp.seq + 1))
    /\ UNCHANGED << configVars, factoryVars, timerVars >>

CancelHalf ==
  \E h \in Halves :
    /\ ~asserted /\ pipeOp.seq < MaxOps
    /\ pipeOp' = [op |-> "cancel", half |-> h, size |-> 0,
                  handler |-> 0, seq |-> pipeOp.seq + 1]
    /\ InstallPipe(PipeCancel(CurPipe, h))
    /\ UNCHANGED << configVars, factoryVars, timerVars >>

InitPipe ==
  /\ read_handler_ = [h \in Halves |-> 0]
  /\ read_buffers_ = [h \in Halves |-> 0]
  /\ write_handler_ = [h \in Halves |-> 0]
  /\ write_buffers_ = [h \in Halves |-> 0]
  /\ posted = << >>
  /\ asserted = FALSE
  /\ pipeOp = NoOp

\* ------------------------------------------------------- StreamPipeFactory
Keys == 1..MaxKeys

\* The values of GetStream's int direction that callers pass.
Directions == {0, 1, 2}

\* std::map::count
MapCount(m, key) == IF key \in DOMAIN m THEN 1 ELSE 0

\* std::map::insert: an entry whose key is present stays as it is
MapInsert(m, key, v) == IF key \in DOMAIN m THEN m ELSE m @@ (key :> v)

\* std::map::operator[]: a missing key gets a value-initialised entry,
\* here a null shared_ptr
MapIndex(m, key) == IF key \in DOMAIN m THEN m ELSE m @@ (key :> 0)

\* What &parent->direction_a_ gives when parent is null: the program
\* traps, or goes on with a pointer into no pipe.
NullDeref == {"trap", "a", "b"}

\* StreamPipeFactory::GetStream; ub is the outcome of the dereference
\* should parent be null.
GetStream(pipes, alloc, key, direction, ub) ==
  LET present == MapCount(pipes, key) # 0
      m1 == IF present THEN MapInsert(pipes, key, alloc + 1) ELSE pipes
      m2 == MapIndex(m1, key)
      parent == m2[key]
      half == IF direction = 0 THEN "a" ELSE "b"
  IN  [ pipes |-> m2,
        alloc |-> IF present THEN alloc + 1 ELSE alloc,
        trap |-> parent = 0 /\ ub = "trap",
        stream |-> [ key |-> key, direction |-> direction, parent_ |-> parent,
                     pipe_ |-> IF parent = 0
                               THEN [pipe |-> 0, half |-> ub]
                               ELSE [pipe |-> parent, half |-> half] ] ]

\* A caller asks the factory for a stream.
GetStreamCall ==
  \E key \in Keys, direction \in Directions, ub \in NullDeref :
    /\ ~crashed /\ Len(streams) < MaxCalls
    /\ LET r == GetStream(pipes_, allocated, key, direction, ub)
       IN  /\ pipes_' = r.pipes
           /\ allocated' = r.alloc
           /\ crashed' = r.trap
           /\ streams' = IF r.trap THEN streams ELSE Append(streams, r.stream)
    /\ UNCHANGED << configVars, pipeVars, timerVars >>

\* StreamPipeFactory::Impl as constructed: no pipes
InitFactory ==
  /\ pipes_ = << >>
  /\ allocated = 0
  /\ streams = << >>
  /\ crashed = FALSE

\* ---------------------------------------------------------- RepeatingTimer
\* expires_at() of a timer that was never set: not_a_date_time
Special == -1

\* The timer as the code reads and writes it, with what the step in hand
\* has done so far.
CurTimer ==
  [ period |-> period_, callback |-> callback_, timer |-> timer_,
    completions |-> completions, did |-> << >> ]

InstallTimer(T, op, ec) ==
  /\ period_' = T.period
  /\ callback_' = T.callback
  /\ timer_' = T.timer
  /\ completions' = T.completions
  /\ timerStep' = [op |-> op, ec |-> ec, callback |-> callback_, did |-> T.did]

\* service_.post(std::bind(callback_, ec))
PostCallback(T, ec) ==
  [T EXCEPT !.did = Append(@, [what |-> "post", cb |-> T.callback, n |-> ec])]

\* timer_.expires_at(t): a pending wait completes with operation_aborted
ExpiresAt(T, t) ==
  [ T EXCEPT !.timer = [expires |-> t, pending |-> FALSE],
             !.completions = IF T.timer.pending
                             THEN Append(@, OperationAborted) ELSE @ ]

\* timer_.async_wait(HandleTimer)
AsyncWait(T) ==
  [ T EXCEPT !.timer.pending = TRUE,
             !.did = Append(@, [what |-> "arm", cb |-> 0,
                                n |-> T.timer.expires]) ]

\* timer_.cancel(): a pending wait completes with operation_aborted
TimerCancel(T) ==
  [ T EXCEPT !.timer.pending = FALSE,
             !.completions = IF T.timer.pending
                             THEN Append(@, OperationAborted) ELSE @ ]

\* RepeatingTimer::StartInternal at time t
StartInternal(T, t) ==
  LET last_expires == T.timer.expires
  IN  IF last_expires = Special
      THEN AsyncWait(ExpiresAt(T, t + T.period))
      ELSE IF last_expires + T.period < t
           THEN AsyncWait(ExpiresAt(PostCallback(T, OperationAborted),
                                    t + T.period))
           ELSE AsyncWait(ExpiresAt(T, last_expires + T.period))

\* HandleTimer without the test of callback_
HandleTimer_NoTest(T, t, ec) == PostCallback(StartInternal(T, t), ec)

\* RepeatingTimer::HandleTimer at time t
HandleTimer(T, t, ec) ==
  IF T.callback = 0 THEN T
  ELSE PostCallback(StartInternal(T, t), ec)

\* RepeatingTimer::start
RepeatingTimerStart(T, t, period, callback) ==
  StartInternal([T EXCEPT !.period = period, !.callback = callback], t)

\* RepeatingTimer::cancel
RepeatingTimerCancel(T) == TimerCancel([T EXCEPT !.callback = 0])

\* The owner starts the timer, with a callback of its own.
TimerStart ==
  \E period \in 1..MaxPeriod :
    /\ starts < MaxStarts /\ timer_.expires <= MaxTime
    /\ starts' = starts + 1
    /\ InstallTimer(RepeatingTimerStart(CurTimer, now, period, starts + 1),
                    "start", 0)
    /\ UNCHANGED << now, configVars, pipeVars, factoryVars >>

\* The owner cancels the timer.
TimerCancelCall ==
  /\ starts > 0
  /\ InstallTimer(RepeatingTimerCancel(CurTimer), "cancel", 0)
  /\ UNCHANGED << now, starts, configVars, pipeVars, factoryVars >>

\* The deadline passes: the pending wait completes without error.
TimerExpire ==
  /\ timer_.pending /\ now >= timer_.expires
  /\ InstallTimer([CurTimer EXCEPT !.timer.pending = FALSE,
                                   !.completions = Append(@, 0)],
                  "expire", 0)
  /\ UNCHANGED << now, starts, configVars, pipeVars, factoryVars >>

\* The io_service runs the completion of a wait: HandleTimer(ec).  (The
\* model follows the timer while its expiry is within the clock's range.)
TimerCompletion ==
  /\ completions # << >> /\ timer_.expires <= MaxTime
  /\ InstallTimer(HandleTimer([CurTimer EXCEPT !.completions = Tail(@)],
                              now, Head(completions)),
                  "handle", Head(completions))
  /\ UNCHANGED << now, starts, configVars, pipeVars, factoryVars >>

\* Time passes.
Tick ==
  /\ now < MaxTime
  /\ now' = now + 1
  /\ timerStep' = [op |-> "tick", ec |-> 0, callback |-> callback_,
                   did |-> << >>]
  /\ UNCHANGED << period_, callback_, timer_, completions, starts,
                  configVars, pipeVars, factoryVars >>

\* RepeatingTimer as constructed
InitTimer ==
  /\ period_ = 0
  /\ callback_ = 0
  /\ timer_ = [expires |-> Special, pending |-> FALSE]
  /\ completions = << >>
  /\ now = 0
  /\ starts = 0
  /\ timerStep = [op |-> "", ec |-> 0, callback |-> 0, did |-> << >>]

\* ---------------------------------------------------------- specifications
InitCommon ==
  /\ InitPipe
  /\ InitFactory
  /\ InitTimer
  /\ elements_ = << >>
  /\ aborted = FALSE
  /\ started = FALSE
  /\ locked = TRUE
  /\ current_response_ = 0
  /\ current_enumerate_index_ = 0
  /\ handlers = << >>
  /\ writes = << >>
  /\ cmd = NoCmd
  /\ trace = << >>
  /\ scan = << >>
  /\ rt = 0
  /\ snap = [g \in GroupNames |-> DefaultValue]
  /\ lastVerb = ""

Init ==
  /\ InitCommon
  /\ value = [g \in GroupNames |-> DefaultValue]
  /\ flash = ErasedFlash

Next ==
  \/ RegisterGroup
  \/ AnyCommand
  \/ HandlerComplete
  \/ AsyncWriteComplete
  \/ Retire

Spec == Init /\ [][Next]_vars

\* Load over every image the region can hold.
InitLoad ==
  /\ InitCommon
  /\ value \in [GroupNames -> Values]
  /\ flash \in Images(MaxRecs)

NextLoad ==
  \/ RegisterGroup
  \/ LoadCommand
  \/ AsyncWriteComplete
  \/ Retire

SpecLoad == InitLoad /\ [][NextLoad]_vars

\* Handlers and the transport complete what they were given: a handler
\* calls its completion once, a started write finishes.
SpecLive ==
  /\ Init /\ [][Next]_vars
  /\ WF_vars(HandlerComplete)
  /\ WF_vars(AsyncWriteComplete)

\* Calls on the two halves of one pipe, in any order.
NextPipe ==
  \/ ReadSome
  \/ WriteSome
  \/ CancelHalf

SpecPipe == Init /\ [][NextPipe]_vars

\* Calls of GetStream, with any keys and directions.
NextFactory == GetStreamCall

SpecFactory == Init /\ [][NextFactory]_vars

\* A timer, its owner and the clock.
NextTimer ==
  \/ TimerStart
  \/ TimerCancelCall
  \/ TimerExpire
  \/ TimerCompletion
  \/ Tick

SpecTimer == Init /\ [][NextTimer]_vars

\* Registration up to capacity.
NextReg == RegisterNext

SpecReg == Init /\ [][NextReg]_vars


\* ------------------------------------------------------------------ claims
IsPrefix(a, b) == Len(a) <= Len(b) /\ a = SubSeq(b, 1, Len(a))

Registered(g) == \E i \in DOMAIN elements_ : elements_[i] = g

\* C1: after write, then default, then load, every registered group's
\* in-memory value is the value it had just before the write.
RoundTrip ==
  rt = 3 => \A g \in GroupNames : Registered(g) => value[g] = snap[g]

\* Both groups registered, both with a value the default had overwritten.
RoundTripWitness ==
  /\ rt = 3
  /\ Len(elements_) = 2
  /\ \A g \in GroupNames : Registered(g) =>
        snap[g] # DefaultValue /\ value[g] = snap[g]
  /\ Completed

\* The groups ReadBinary was called on, in order, as the trace has them.
ReadBinaryCalls ==
  LET calls == SelectSeq(trace, LAMBDA e : e.ev = "ReadBinary")
  IN  [k \in DOMAIN calls |-> calls[k].g]

\* The groups of the records the scan applied, in order.
AppliedGroups ==
  LET applied == SelectSeq(scan, LAMBDA e : e.out = "applied")
  IN  [k \in DOMAIN applied |-> applied[k].g]

\* C2: a record of a registered group whose stored CRC is not the CRC of
\* the group's live schema is not handed to ReadBinary and changes no
\* value; the engine ignores its dataLen bytes (the stream stops at the
\* region's end) and decodes the next record header from there.
SchemaMismatchIsolation ==
  /\ ReadBinaryCalls = AppliedGroups
  /\ \A i \in DOMAIN scan :
       LET e == scan[i]
       IN  (e.g # 0 /\ e.crc # CalculateCrc(WriteSchema(e.g, LiveVersion))) =>
             /\ e.out = "mismatch"
             /\ e.va = e.vb
             /\ e.end = Min(e.data + e.len, FlashSize)
             /\ i < Len(scan)
             /\ scan[i + 1].start = e.end
             /\ scan[i + 1].vb = e.vb

\* A stale record, and after it a record that is applied and changes a value.
SchemaMismatchWitness ==
  /\ Completed
  /\ \E i, j \in DOMAIN scan :
       /\ i < j
       /\ scan[i].out = "mismatch" /\ scan[i].len > 0
       /\ scan[j].out = "applied" /\ scan[j].va # scan[j].vb
       /\ scan[j].len = 1 /\ scan[j].end = scan[j].data + 1
       /\ value = scan[j].va

\* C3: a record naming no registered group changes no value; the engine
\* ignores its dataLen bytes (the stream stops at the region's end) and
\* decodes the next record header from there.
UnknownGroupIsolation ==
  \A i \in DOMAIN scan :
    LET e == scan[i]
    IN  (e.name # << >> /\ PoolFind(elements_, e.name) = 0) =>
          /\ e.out = "unknown"
          /\ e.va = e.vb
          /\ e.end = Min(e.data + e.len, FlashSize)
          /\ i < Len(scan)
          /\ scan[i + 1].start = e.end
          /\ scan[i + 1].vb = e.vb

\* An unknown record with a payload, and after it a record that is applied
\* and changes a value.
UnknownGroupWitness ==
  /\ Completed
  /\ \E i, j \in DOMAIN scan :
       /\ i < j
       /\ scan[i].out = "unknown" /\ scan[i].len > 0
       /\ scan[i].end = scan[i].data + scan[i].len
       /\ scan[j].out = "applied" /\ scan[j].va # scan[j].vb
       /\ scan[j].len = 1 /\ scan[j].end = scan[j].data + 1
       /\ value = scan[j].va


\* What a reply adds to the trace: the write, its completion, the callback.
ReplyTail(msg) ==
  << Ev("reply", cmd.resp, msg, 0), Ev("written", cmd.resp, msg, 0),
     Ev("callback", cmd.resp, "", 0) >>

NoHandlerError ==
  \A k \in DOMAIN trace : ~(trace[k].ev = "completed" /\ trace[k].n # 0)

Last(seq) == seq[Len(seq)]

\* Group by group: the call of Enumerate, then its completion; then OK.
EnumerateExpected ==
  [ k \in 1..(2 * Len(elements_)) |->
      IF k % 2 = 1
      THEN Ev("Enumerate", elements_[(k + 1) \div 2], "", 0)
      ELSE Ev("completed", elements_[k \div 2], "enumerate", 0) ]
    \o ReplyTail("OK\r\n")

\* C4: while no handler reports an error, an enumerate command calls each
\* registered group's Enumerate once, in registration order, each after
\* the completion of the one before, with one operation outstanding at a
\* time, and writes OK after the last completion.
EnumerateInOrder ==
  (cmd.verb = "enumerate" /\ NoHandlerError) =>
    /\ trace # << >>
    /\ IsPrefix(trace, EnumerateExpected)
    /\ Len(handlers) + Len(writes) <= 1
    /\ Len(handlers) = 1 <=> Last(trace).ev = "Enumerate"
    /\ Len(writes) = 1 <=> Last(trace).ev = "reply"

\* An enumerate over both groups has completed.
EnumerateWitness ==
  /\ cmd.verb = "enumerate"
  /\ Len(elements_) = 2
  /\ trace = EnumerateExpected

\* C5: when a handler's completion reports an error to enumerate or get,
\* the command's callback gets that error at once; no reply is written,
\* no further Enumerate is called and nothing stays outstanding.
AbortOnError ==
  \A k \in DOMAIN trace :
    (trace[k].ev = "completed" /\ trace[k].n # 0) =>
      /\ Len(trace) = k + 1
      /\ trace[k + 1] = Ev("callback", cmd.resp, "", trace[k].n)
      /\ \A j \in DOMAIN trace : trace[j].ev # "reply"
      /\ IsPrefix(SubSeq(trace, 1, k - 1), EnumerateExpected)
           \/ SubSeq(trace, 1, k - 1)
                = << Ev("Read", cmd.group, cmd.key, value[cmd.group]) >>
      /\ handlers = << >>
      /\ writes = << >>

\* The first of two groups reports an error to enumerate.
AbortOnErrorWitness ==
  /\ cmd.verb = "enumerate"
  /\ Len(elements_) = 2
  /\ Len(trace) = 3
  /\ trace[2] = Ev("completed", elements_[1], "enumerate", 2)

KnownVerbs == {"enumerate", "get", "set", "load", "write", "default"}

UnknownGroupCommand == cmd.verb \in {"get", "set"} /\ ~Registered(cmd.group)

UnknownVerbCommand == cmd.verb # "" /\ cmd.verb \notin KnownVerbs

\* C6: a get or set naming an unregistered group does nothing but reply
\* "ERR unknown group", a verb that is none of the six nothing but reply
\* "ERR unknown subcommand": no handler call, no onUpdate, no flash
\* operation, no change of a value, and the callback gets no error.
ProtocolErrors ==
  [][ /\ UnknownGroupCommand' =>
           /\ trace' # << >>
           /\ IsPrefix(trace', ReplyTail("ERR unknown group\r\n")')
           /\ handlers' = << >>
           /\ value' = value /\ flash' = flash /\ locked' = locked
      /\ UnknownVerbCommand' =>
           /\ trace' # << >>
           /\ IsPrefix(trace', ReplyTail("ERR unknown subcommand\r\n")')
           /\ handlers' = << >>
           /\ value' = value /\ flash' = flash /\ locked' = locked ]_vars

\* A set of a field the handlers know, on a group that is not registered.
ProtocolErrorsWitness ==
  /\ cmd.verb = "set" /\ cmd.key = "x" /\ cmd.val # DefaultValue
  /\ Len(elements_) = 1 /\ ~Registered(cmd.group) /\ cmd.group \in GroupNames
  /\ trace = ReplyTail("ERR unknown group\r\n")

\* C7: the registry's names are distinct and at most kMaxSize; a Register
\* of a registered name, or with kMaxSize groups registered, aborts and
\* adds no entry; any other Register appends the name.
RegistrationInvariants ==
  /\ \A i, j \in DOMAIN elements_ : i # j => elements_[i] # elements_[j]
  /\ Len(elements_) <= kMaxSize
  /\ (trace # << >> /\ trace[1].ev = "Register") =>
       LET n == trace[1].g
           before == trace[1].n
       IN  IF (\E i \in 1..before : elements_[i] = n) \/ before >= kMaxSize
           THEN aborted /\ Len(elements_) = before
           ELSE ~aborted /\ Len(elements_) = before + 1
                /\ elements_[before + 1] = n

\* The registration that finds the registry full.
RegistrationWitness ==
  /\ aborted
  /\ Len(elements_) = kMaxSize
  /\ trace[1] = Ev("Register", kMaxSize + 1, "", kMaxSize)

\* C8: a set on a registered group calls the handler's Set; when that
\* gives zero the group's onUpdate runs once and then OK is written, with
\* no other onUpdate; when it gives nonzero the reply is "ERR error
\* setting" and no onUpdate runs.
SetNotifies ==
  (cmd.verb = "set" /\ Registered(cmd.group)) =>
    IF HandlerSetResult(cmd.key) = 0
    THEN /\ Len(trace) >= 3
         /\ IsPrefix(trace, << Ev("Set", cmd.group, cmd.key, cmd.val),
                               Ev("updated", cmd.group, "", 0) >>
                            \o ReplyTail("OK\r\n"))
    ELSE /\ Len(trace) >= 2
         /\ IsPrefix(trace, << Ev("Set", cmd.group, cmd.key, -1) >>
                            \o ReplyTail("ERR error setting\r\n"))

\* A set of the second registered group has completed with OK.
SetNotifiesWitness ==
  /\ cmd.verb = "set" /\ cmd.key = "x" /\ cmd.val # DefaultValue
  /\ Len(elements_) = 2 /\ elements_[2] = cmd.group
  /\ value[cmd.group] = cmd.val
  /\ Len(trace) = 5 /\ trace[5].ev = "callback"

GetOnRegistered == cmd.verb = "get" /\ Registered(cmd.group)

\* C9: a get on a registered group: when Read gives nonzero the engine
\* writes exactly "ERR error reading"; when Read gives zero and completes
\* without error the engine writes exactly one "\r\n", after the
\* completion; it never writes OK, changes no value and no flash byte and
\* calls nothing but Read.
GetReply ==
  [][ GetOnRegistered' =>
        /\ value' = value /\ flash' = flash /\ locked' = locked
        /\ \A k \in DOMAIN trace' :
             /\ trace'[k].ev \in {"Read", "completed", "reply", "written",
                                  "callback"}
             /\ trace'[k].s # "OK\r\n"
        /\ IF HandlerReadResult(cmd'.key) # 0
           THEN /\ Len(trace') >= 2
                /\ IsPrefix(trace', << Ev("Read", cmd'.group, cmd'.key, -1) >>
                                    \o ReplyTail("ERR error reading\r\n")')
           ELSE /\ Len(trace') >= 1
                /\ NoHandlerError' =>
                     IsPrefix(trace',
                       << Ev("Read", cmd'.group, cmd'.key, value[cmd'.group]),
                          Ev("completed", cmd'.group, "read", 0) >>
                         \o ReplyTail("\r\n")') ]_vars

\* A get of a field holding a value that is not the default has completed.
GetReplyWitness ==
  /\ cmd.verb = "get" /\ Registered(cmd.group)
  /\ Len(trace) = 5
  /\ trace[1] = Ev("Read", cmd.group, "x", 1)
  /\ trace[3].s = "\r\n"
  /\ trace[5] = Ev("callback", cmd.resp, "", 0)

\* One onUpdate per registered group, in registration order.
UpdatesExpected ==
  [k \in DOMAIN elements_ |-> Ev("updated", elements_[k], "", 0)]

\* C10: a load scans the region to a stop, then calls every registered
\* group's onUpdate once, in registration order, then replies OK, and its
\* callback gets no error, whatever the region holds.
LoadNotifiesAll ==
  cmd.verb = "load" =>
    LET expected ==
          << Ev("GetInfo", 0, "", 0) >>
            \o SelectSeq(trace, LAMBDA e : e.ev = "ReadBinary")
            \o << Ev("scanned", 0, "", 0) >>
            \o UpdatesExpected \o ReplyTail("OK\r\n")
    IN  /\ Len(trace) >= Len(expected) - 2
        /\ IsPrefix(trace, expected)
        /\ scan # << >>
        /\ Last(scan).name = << >>
        /\ \A k \in 1..(Len(scan) - 1) : scan[k].name # << >>

\* A load of two groups over an image cut short after a record's name.
LoadNotifiesAllWitness ==
  /\ cmd.verb = "load"
  /\ Completed
  /\ Len(elements_) = 2
  /\ Len(scan) >= 2
  /\ Last(scan).out = "short"

\* The onUpdate calls of the command in flight, in order.
UpdatesFired == SelectSeq(trace, LAMBDA e : e.ev = "updated")

\* C11: a load that follows a load, the flash being what it was, leaves
\* every group's value as the first load left it, and each of the two
\* loads calls every registered group's onUpdate.
LoadIdempotent ==
  /\ [](cmd.verb = "load" => UpdatesFired = UpdatesExpected)
  /\ [][ (Idle /\ lastVerb = "load" /\ cmd'.verb = "load") =>
          /\ value' = value
          /\ flash' = flash ]_vars

\* The second of two loads, over an image whose records the first load
\* applied to both groups, changing the value of each.
LoadIdempotentWitness ==
  /\ cmd.verb = "load" /\ lastVerb = "load" /\ Completed
  /\ Len(elements_) = 2
  /\ Len(AppliedGroups) >= 2
  /\ \A g \in GroupNames : value[g] # DefaultValue

\* What one record adds to the trace of a write, the stream at offset pos:
\* the name with its length, the CRC, the counting pass, the length, the
\* payload.
WriteRecordEvents(g, pos) ==
  << Ev("program", pos, "name", 1 + g),
     Ev("program", pos + 1 + g, "crc", 4),
     Ev("WriteBinary", g, "count", 0),
     Ev("program", pos + 5 + g, "len", 4),
     Ev("WriteBinary", g, "flash", 0),
     Ev("program", pos + 9 + g, "data", 1) >>

RECURSIVE WriteRecordsFrom(_, _)
WriteRecordsFrom(i, pos) ==
  IF i > Len(elements_) THEN << Ev("program", pos, "end", 4) >>
  ELSE WriteRecordEvents(elements_[i], pos)
         \o WriteRecordsFrom(i + 1, pos + 10 + elements_[i])

WriteExpected ==
  << Ev("GetInfo", 0, "", 0), Ev("Unlock", 0, "", 0), Ev("Erase", 0, "", 0) >>
    \o WriteRecordsFrom(1, 0)
    \o << Ev("Lock", 0, "", 0) >> \o ReplyTail("OK\r\n")

\* C12: a write unlocks, erases, writes one record per registered group in
\* registration order, then the terminator, then locks, and only then
\* replies OK; nothing is programmed outside the Unlock..Lock bracket, no
\* onUpdate runs and no group's value changes.
WriteOrder ==
  cmd.verb = "write" =>
    /\ Len(trace) >= Len(WriteExpected) - 2
    /\ IsPrefix(trace, WriteExpected)
    /\ locked
    /\ value = snap

\* A write of two groups, both holding a value that is not the default,
\* has completed.
WriteOrderWitness ==
  /\ cmd.verb = "write" /\ Completed
  /\ Len(elements_) = 2
  /\ \A g \in GroupNames : value[g] # DefaultValue
  /\ trace = WriteExpected
  /\ flash # ErasedFlash

\* One SetDefault per registered group, then OK.
DefaultExpected ==
  [k \in DOMAIN elements_ |-> Ev("SetDefault", elements_[k], "", 0)]
    \o ReplyTail("OK\r\n")

\* C13: a default calls SetDefault once on every registered group and
\* replies OK; it calls no onUpdate and leaves the flash and its lock
\* alone; a get of a field of a registered group that follows it reads
\* the field's default value.
DefaultResets ==
  /\ [](cmd.verb = "default" =>
          /\ Len(trace) >= Len(DefaultExpected) - 2
          /\ IsPrefix(trace, DefaultExpected)
          /\ \A g \in GroupNames : Registered(g) => value[g] = DefaultValue)
  /\ [][cmd'.verb = "default" => flash' = flash /\ locked' = locked]_vars
  /\ []((GetOnRegistered /\ lastVerb = "default" /\ HandlerKnowsKey(cmd.key)) =>
          trace[1] = Ev("Read", cmd.group, cmd.key, DefaultValue))

\* A default of two groups that a write before it found holding values
\* that are not the default, over the image of that write.
DefaultResetsWitness ==
  /\ cmd.verb = "default" /\ Completed
  /\ Len(elements_) = 2
  /\ rt = 2
  /\ \A g \in GroupNames : snap[g] # DefaultValue /\ value[g] = DefaultValue
  /\ flash # ErasedFlash

\* C14: once a record's name, CRC and dataLen are decoded, the next record
\* header is decoded dataLen bytes after the dataLen field (at the
\* region's end when fewer remain), whether the group is unknown, the CRC
\* differs, or ReadBinary was given the payload.
ScanCommitted ==
  \A i \in DOMAIN scan :
    LET e == scan[i]
    IN  e.out \in {"unknown", "mismatch", "applied"} =>
          /\ e.end = Min(e.data + e.len, FlashSize)
          /\ i < Len(scan)
          /\ scan[i + 1].start = e.end

\* The nameLen decoded at offset pos, and the bytes left in the region
\* after the name it announces.
NameLenAt(pos) == ReadVaruint(flash, pos)

AfterName(pos) ==
  FlashSize - Min(NameLenAt(pos).pos + NameLenAt(pos).val, FlashSize)

\* A header at pos that ends the scan.
StopsAt(pos) ==
  \/ ~NameLenAt(pos).ok
  \/ NameLenAt(pos).val = 0
  \/ NameLenAt(pos).val >= kMaxStringSize
  \/ AfterName(pos) < 8

\* C15: the scan of a load stops at the first record header it decodes
\* whose nameLen is 0 or at least the maximum string size, or after whose
\* name fewer than 8 bytes remain (or whose nameLen cannot be decoded);
\* every record before it has none of these; nothing at or after the stop
\* is decoded or given to ReadBinary, and each group holds what the last
\* record applied to it before the stop made it.
ScanStops ==
  cmd.verb = "load" =>
    /\ scan # << >>
    /\ LET stop == Last(scan)
           p == stop.start
       IN  /\ StopsAt(p)
           /\ (p < FlashSize /\ flash[p + 1] = 0) => stop.out = "end"
           /\ stop.out = "end" <=> (NameLenAt(p).ok /\ NameLenAt(p).val = 0)
           /\ stop.out = "name size" <=>
                (NameLenAt(p).ok /\ NameLenAt(p).val >= kMaxStringSize)
           /\ stop.out = "short" <=>
                /\ NameLenAt(p).ok
                /\ NameLenAt(p).val \in 1..(kMaxStringSize - 1)
                /\ AfterName(p) < 8
           /\ stop.out = "varuint" <=> ~NameLenAt(p).ok
           /\ stop.va = stop.vb /\ value = stop.va
           /\ \A i \in 1..(Len(scan) - 1) :
                /\ scan[i].out \in {"unknown", "mismatch", "applied"}
                /\ ~StopsAt(scan[i].start)
                /\ scan[i].start < p
                /\ scan[i].data <= p
                /\ scan[i + 1].vb = scan[i].va
    /\ ReadBinaryCalls = AppliedGroups
    /\ \A i \in DOMAIN scan :
         (/\ scan[i].out = "applied"
          /\ \A j \in DOMAIN scan :
               (j > i /\ scan[j].out = "applied") => scan[j].g # scan[i].g)
         => value[scan[i].g] = scan[i].va[scan[i].g]

\* A load over an image whose first record is applied and changes a
\* value, and whose scan then stops at an oversized name length.
ScanStopsWitness ==
  /\ cmd.verb = "load" /\ Completed
  /\ Len(scan) >= 2
  /\ scan[1].out = "applied" /\ scan[1].va # scan[1].vb
  /\ Last(scan).out = "name size"
  /\ value = scan[1].va

\* The WriteBinary calls of the command in flight on group g.
WriteBinaryCalls(g) ==
  { k \in DOMAIN trace : trace[k].ev = "WriteBinary" /\ trace[k].g = g }

\* C16: in the image a write produces, the dataLen stored for a group is
\* the number of payload bytes WriteBinary then writes for it, and the
\* next record (or the terminator) starts that many bytes after the
\* dataLen field; WriteBinary is called twice per group, the first time
\* into the counting stream, which programs nothing.
DataLenMatches ==
  cmd.verb = "write" =>
    /\ \A g \in GroupNames :
         Cardinality(WriteBinaryCalls(g)) = IF Registered(g) THEN 2 ELSE 0
    /\ \A k \in DOMAIN trace :
         (trace[k].ev = "program" /\ trace[k].s = "len") =>
           LET p == trace[k].g
               g == trace[k - 1].g
           IN  /\ trace[k - 1] = Ev("WriteBinary", g, "count", 0)
               /\ trace[k - 2].ev = "program" /\ trace[k - 2].s = "crc"
               /\ trace[k + 1] = Ev("WriteBinary", g, "flash", 0)
               /\ trace[k + 2] = Ev("program", p + 4, "data",
                                    ReadU32(flash, p))
               /\ ReadU32(flash, p) = Len(WriteBinary(value[g]))
               /\ SubSeq(flash, p + 5, p + 4 + ReadU32(flash, p))
                    = WriteBinary(value[g])
               /\ trace[k + 3].ev = "program"
               /\ trace[k + 3].s \in {"name", "end"}
               /\ trace[k + 3].g = p + 4 + ReadU32(flash, p)

\* A write of the groups registered as "bb", then "a", the first holding a
\* value that is not the default: both stored lengths are 1.
DataLenMatchesWitness ==
  /\ cmd.verb = "write" /\ Completed
  /\ elements_ = << 2, 1 >>
  /\ value[2] # DefaultValue
  /\ ReadU32(flash, 7) = 1 /\ flash[12] = value[2]
  /\ ReadU32(flash, 18) = 1 /\ flash[23] = value[1]

Replied == \E j \in DOMAIN trace : trace[j].ev = "reply"

\* C17: when a command ends with a reply of the engine, its callback runs
\* only after the write of that reply has completed: never before the
\* write is started and never while it is outstanding.
CallbackAfterReply ==
  /\ \A k \in DOMAIN trace :
       (trace[k].ev = "callback" /\ Replied) =>
         /\ k >= 3
         /\ trace[k - 1].ev = "written" /\ trace[k - 1].g = trace[k].g
         /\ trace[k - 2] = Ev("reply", trace[k].g, trace[k - 1].s, 0)
         /\ \A i \in DOMAIN writes : writes[i].resp # trace[k].g
  /\ \A i \in DOMAIN writes :
       writes[i].resp = cmd.resp => (~Idle /\ ~Completed)
  /\ (Replied /\ ~Completed) => Len(writes) = 1

\* A get of a field the group does not have: "ERR error reading" has been
\* written and the callback has run after it.
CallbackAfterReplyWitness ==
  /\ cmd.verb = "get" /\ Registered(cmd.group) /\ ~HandlerKnowsKey(cmd.key)
  /\ Len(trace) = 4
  /\ trace[2] = Ev("reply", cmd.resp, "ERR error reading\r\n", 0)
  /\ trace[3] = Ev("written", cmd.resp, "ERR error reading\r\n", 0)
  /\ trace[4] = Ev("callback", cmd.resp, "", 0)
  /\ writes = << >>

\* The invocations of the completion callback by the command in flight.
CallbackCalls == SelectSeq(trace, LAMBDA e : e.ev = "callback")

\* C18: every command, of any verb, on success and on error, gets its
\* completion callback once: never twice, always on its own response,
\* with nothing of it outstanding afterwards, and never not at all.
CallbackExactlyOnce ==
  /\ [](~Idle =>
          /\ Len(CallbackCalls) <= 1
          /\ \A k \in DOMAIN CallbackCalls : CallbackCalls[k].g = cmd.resp
          /\ Completed => (handlers = << >> /\ writes = << >>))
  /\ (~Idle ~> Completed)

\* A get whose handler reported an error: the callback has run once, with
\* the error, and no reply was written.
CallbackExactlyOnceWitness ==
  /\ cmd.verb = "get" /\ Registered(cmd.group)
  /\ Len(trace) = 3
  /\ trace[2] = Ev("completed", cmd.group, "read", 1)
  /\ CallbackCalls = << Ev("callback", cmd.resp, "", 1) >>
  /\ handlers = << >> /\ writes = << >>

\* C19: the scan of DoLoad ends whatever the region holds: an iteration
\* that does not leave the loop moves the read position forward, by a
\* header at least, and no position lies past the end of the region, so
\* the iterations are fewer than the region has bytes.
ScanTerminates ==
  /\ cmd.verb = "load" =>
       (scan # << >> /\ Last(scan).out \in {"end", "name size", "short", "varuint"})
  /\ Len(scan) <= FlashSize \div 10 + 1
  /\ \A i \in DOMAIN scan :
       LET e == scan[i]
       IN  /\ 0 <= e.start /\ e.start <= e.data
           /\ e.data <= e.end /\ e.end <= FlashSize
           /\ i < Len(scan) =>
                /\ e.start + 10 <= e.data
                /\ scan[i + 1].start = e.end

\* An image without a terminator whose last record declares more payload
\* than the region has left: the skip ends at the region's end and the
\* scan ends there.
ScanTerminatesWitness ==
  /\ cmd.verb = "load" /\ Completed
  /\ Len(scan) >= 2
  /\ LET e == scan[Len(scan) - 1]
     IN  /\ e.out \in {"unknown", "mismatch"}
         /\ e.data + e.len > FlashSize
         /\ e.end = FlashSize
  /\ Last(scan).out = "varuint"
  /\ Last(scan).start = FlashSize

\* The step is an accepted call of op with a non-empty buffer.
PipeCall(op) ==
  /\ pipeOp'.seq = pipeOp.seq + 1
  /\ pipeOp'.op = op
  /\ pipeOp'.size > 0
  /\ ~asserted'

\* The two posts of a rendezvous: first the pending handler, then the
\* caller's, both without error and with the count n.
BothPosted(pending, n) ==
  posted' = posted \o << [h |-> pending, err |-> 0, n |-> n],
                         [h |-> pipeOp'.handler, err |-> 0, n |-> n] >>

\* C20: a read with a non-empty buffer that finds a write pending on the
\* other half (a write with non-empty data that finds a read pending
\* there) posts both handlers, without error and with the same count, the
\* smaller of the two sizes, and clears the pending operation; one that
\* finds none is stored and posts nothing; whatever the calls on the two
\* halves, no handler is posted twice.
PipeRendezvous ==
  /\ [][ PipeCall("read") =>
          LET h == pipeOp'.half
              o == Other(h)
          IN  IF write_handler_[o] # 0
              THEN /\ BothPosted(write_handler_[o],
                                 IF pipeOp'.size < write_buffers_[o]
                                 THEN pipeOp'.size ELSE write_buffers_[o])
                   /\ write_handler_'[o] = 0 /\ write_buffers_'[o] = 0
                   /\ read_handler_' = read_handler_
              ELSE /\ posted' = posted
                   /\ read_handler_'[h] = pipeOp'.handler
                   /\ read_buffers_'[h] = pipeOp'.size
                   /\ write_handler_' = write_handler_ ]_vars
  /\ [][ PipeCall("write") =>
          LET h == pipeOp'.half
              o == Other(h)
          IN  IF read_handler_[o] # 0
              THEN /\ BothPosted(read_handler_[o],
                                 IF pipeOp'.size < read_buffers_[o]
                                 THEN pipeOp'.size ELSE read_buffers_[o])
                   /\ read_handler_'[o] = 0 /\ read_buffers_'[o] = 0
                   /\ write_handler_' = write_handler_
              ELSE /\ posted' = posted
                   /\ write_handler_'[h] = pipeOp'.handler
                   /\ write_buffers_'[h] = pipeOp'.size
                   /\ read_handler_' = read_handler_ ]_vars
  /\ [](\A i, j \in DOMAIN posted :
          i # j => posted[i].h # posted[j].h)
  /\ [](\A i \in DOMAIN posted, h \in Halves :
          posted[i].h # read_handler_[h] /\ posted[i].h # write_handler_[h])

\* A read of one byte on half b has met the pending write of two bytes on
\* half a: both handlers are posted with the count 1.
PipeRendezvousWitness ==
  /\ pipeOp.op = "read" /\ pipeOp.half = "b" /\ pipeOp.size = 1
  /\ posted = << [h |-> 1, err |-> 0, n |-> 1],
                 [h |-> pipeOp.handler, err |-> 0, n |-> 1] >>
  /\ pipeOp.handler = 2
  /\ write_handler_ = [h \in Halves |-> 0]
  /\ ~asserted

\* C21: GetStream gives, for any key, seen before or not, a stream backed
\* by a BidirectionalPipe that exists; the streams of one key share one
\* pipe, direction 0 giving its half a and any other direction its half b.
FactorySharesPipe ==
  /\ ~crashed
  /\ \A i \in DOMAIN streams :
       /\ streams[i].parent_ # 0
       /\ streams[i].pipe_.pipe = streams[i].parent_
       /\ streams[i].pipe_.half
            = IF streams[i].direction = 0 THEN "a" ELSE "b"
       /\ pipes_[streams[i].key] = streams[i].parent_
  /\ \A i, j \in DOMAIN streams :
       streams[i].key = streams[j].key =>
         streams[i].parent_ = streams[j].parent_

\* The step runs HandleTimer for a completion.
HandlesCompletion == timerStep'.op = "handle"

\* After a cancel and before the next start, a completion leaves the
\* timer as it is and posts nothing.
QuietWhenCancelled ==
  (HandlesCompletion /\ callback_ = 0) =>
    /\ timerStep'.did = << >>
    /\ timer_' = timer_
    /\ callback_' = 0

\* The timer was re-armed: a wait is pending on the expiry n.
Rearmed(e) ==
  /\ e.what = "arm"
  /\ timer_'.pending /\ timer_'.expires = e.n

\* C22 as stated: between a cancel and the next start no completion
\* re-arms the timer or posts the callback; while the timer is not
\* cancelled, every completion re-arms it and then posts the callback,
\* once.
TimerRearmsThenPostsOnce ==
  [][ /\ QuietWhenCancelled
      /\ (HandlesCompletion /\ callback_ # 0) =>
            /\ Len(timerStep'.did) = 2
            /\ Rearmed(timerStep'.did[1])
            /\ timerStep'.did[2]
                 = [what |-> "post", cb |-> callback_, n |-> timerStep'.ec]
    ]_vars

\* C22 as the code has it: between a cancel and the next start no
\* completion re-arms the timer or posts the callback; while the timer is
\* not cancelled, every completion re-arms it and then posts the callback
\* once with the completion's error code; when the re-arming finds a
\* cycle skipped (the last expiry plus the period is in the past) the
\* callback is posted once more, with operation_aborted, before it.
TimerRearmsThenPosts ==
  [][ /\ QuietWhenCancelled
      /\ (HandlesCompletion /\ callback_ # 0) =>
            LET did == timerStep'.did
                skipped == timer_.expires + period_ < now
                k == Len(did)
            IN  /\ k = IF skipped THEN 3 ELSE 2
                /\ Rearmed(did[k - 1])
                /\ did[k] = [what |-> "post", cb |-> callback_,
                              n |-> timerStep'.ec]
                /\ skipped =>
                     did[1] = [what |-> "post", cb |-> callback_,
                               n |-> OperationAborted]
                /\ callback_' = callback_
    ]_vars

\* A completion without error, run so late that a cycle was skipped: the
\* callback is posted with operation_aborted, the timer re-armed from the
\* present time, and the callback posted with the completion's code.
TimerRearmsThenPostsWitness ==
  /\ timerStep.op = "handle" /\ timerStep.ec = 0
  /\ callback_ # 0
  /\ timerStep.did
       = << [what |-> "post", cb |-> callback_, n |-> OperationAborted],
            [what |-> "arm", cb |-> 0, n |-> now + period_],
            [what |-> "post", cb |-> callback_, n |-> 0] >>
  /\ timer_.pending

=============================================================================
